---------------------------- MODULE Spec2Model ----------------------------
(***************************************************************************)
(* A model of the DAGMC geometry import of OpenMC (src/src/dagmc.cpp):     *)
(* the DAGUniverse constructors, DAGUniverse::initialize with its volume   *)
(* and surface loops, read_uwuw_materials, legacy_assign_material and      *)
(* dagmc_ids_for_dim, acting on the global registries model::cells,        *)
(* model::cell_map, model::surfaces, model::surface_map, model::materials. *)
(*                                                                         *)
(* Strings are sequences of ASCII codes, so that to_lower, std::stoi and   *)
(* the text written by dagmc_ids_for_dim are computed character by         *)
(* character.                                                              *)
(***************************************************************************)
EXTENDS Integers, Sequences, FiniteSets, TLC

\* ------------------------------------------------------------------ bounds
MaxVols == 2
MaxSurfs == 1
MaxId == 3
MaxImports == 2

\* --------------------------------------------------------------- constants
MATERIAL_VOID == -1
temperature_default == 293
TempProp == 600
INT_MAX == 2147483647

\* ----------------------------------------------------------------- strings
STR_empty == << >>
STR_void == <<118, 111, 105, 100>>   \* "void"
STR_vacuum == <<118, 97, 99, 117, 117, 109>>   \* "vacuum"
STR_graveyard == <<103, 114, 97, 118, 101, 121, 97, 114, 100>>   \* "graveyard"
STR_Graveyard == <<71, 114, 97, 118, 101, 121, 97, 114, 100>>   \* "Graveyard"
STR_VOID == <<86, 79, 73, 68>>   \* "VOID"
STR_steel == <<115, 116, 101, 101, 108>>   \* "steel"
STR_Steel == <<83, 116, 101, 101, 108>>   \* "Steel"
STR_iron == <<105, 114, 111, 110>>   \* "iron"
STR_transmit == <<116, 114, 97, 110, 115, 109, 105, 116>>   \* "transmit"
STR_transmission == <<116, 114, 97, 110, 115, 109, 105, 115, 115, 105, 111, 110>>   \* "transmission"
STR_reflective == <<114, 101, 102, 108, 101, 99, 116, 105, 118, 101>>   \* "reflective"
STR_reflect == <<114, 101, 102, 108, 101, 99, 116>>   \* "reflect"
STR_reflecting == <<114, 101, 102, 108, 101, 99, 116, 105, 110, 103>>   \* "reflecting"
STR_periodic == <<112, 101, 114, 105, 111, 100, 105, 99>>   \* "periodic"
STR_white == <<119, 104, 105, 116, 101>>   \* "white"
STR_Vacuum == <<86, 97, 99, 117, 117, 109>>   \* "Vacuum"
STR_Reflect == <<82, 101, 102, 108, 101, 99, 116>>   \* "Reflect"
STR_seven == <<55>>   \* "7"
STR_minus_one == <<45, 49>>   \* "-1"
STR_seven_x == <<55, 120>>   \* "7x"
STR_pad_two == <<32, 50>>   \* " 2"
STR_x9 == <<120, 57>>   \* "x9"
STR_mat_steel == <<109, 97, 116, 58, 83, 116, 101, 101, 108>>   \* "mat:Steel"
STR_mat_lead == <<109, 97, 116, 58, 76, 101, 97, 100>>   \* "mat:Lead"
STR_mat_iron == <<109, 97, 116, 58, 73, 114, 111, 110>>   \* "mat:Iron"

\* to_lower(std::string&): every upper-case ASCII letter becomes lower case.
LowerChar(ch) == IF ch >= 65 /\ ch <= 90 THEN ch + 32 ELSE ch

to_lower(str) == [k \in 1..Len(str) |-> LowerChar(str[k])]

\* std::stoi: leading white space is skipped, then an optional sign, then the
\* longest run of decimal digits; what follows the digits is ignored.
IsSpace(ch) == ch = 32 \/ (ch >= 9 /\ ch <= 13)

IsDigit(ch) == ch >= 48 /\ ch <= 57

RECURSIVE SkipSpace(_, _)
SkipSpace(str, k) ==
  IF k <= Len(str) /\ IsSpace(str[k]) THEN SkipSpace(str, k + 1) ELSE k

RECURSIVE DigitRun(_, _, _)
DigitRun(str, k, acc) ==
  IF k <= Len(str) /\ IsDigit(str[k])
  THEN DigitRun(str, k + 1, 10 * acc + (str[k] - 48))
  ELSE acc

\* [kind |-> "ok", value |-> n], or the exception std::stoi throws.
stoi(str) ==
  LET b == SkipSpace(str, 1)
      neg == b <= Len(str) /\ str[b] = 45
      signed == b <= Len(str) /\ (str[b] = 45 \/ str[b] = 43)
      d == IF signed THEN b + 1 ELSE b
      mag == DigitRun(str, d, 0)
      val == IF neg THEN 0 - mag ELSE mag
  IN  IF ~(d <= Len(str) /\ IsDigit(str[d]))
      THEN [kind |-> "invalid_argument", value |-> 0]
      ELSE IF val > INT_MAX \/ val < 0 - INT_MAX - 1
      THEN [kind |-> "out_of_range", value |-> 0]
      ELSE [kind |-> "ok", value |-> val]

\* operator<<(std::ostream&, int): the decimal digits of n, with its sign.
RECURSIVE Digits(_)
Digits(n) == IF n < 10 THEN <<48 + n>> ELSE Digits(n \div 10) \o <<48 + (n % 10)>>

to_string(n) == IF n < 0 THEN <<45>> \o Digits(0 - n) ELSE Digits(n)

\* ------------------------------------------------------ dagmc_ids_for_dim
\* id_vec[k] with k counted from 0; one past the end is a read outside the
\* vector, whose value is whatever the memory holds (oob).
VecAt(id_vec, k, oob) == IF k < Len(id_vec) THEN id_vec[k + 1] ELSE oob

\* The while loop of dagmc_ids_for_dim, from position i on.
RECURSIVE RangeLoop(_, _, _, _, _)
RangeLoop(id_vec, i, start_id, out, oob) ==
  LET n_cells == Len(id_vec)
      stop_id == VecAt(id_vec, i, oob)
      block == IF start_id # stop_id
               THEN to_string(start_id) \o <<45>> \o to_string(stop_id)
               ELSE to_string(start_id)
      sep == IF i < n_cells - 1 THEN <<44, 32>> ELSE << >>
  IN  IF ~(i < n_cells) THEN out
      ELSE IF VecAt(id_vec, i + 1, oob) > stop_id + 1
      THEN RangeLoop(id_vec, i + 2, VecAt(id_vec, i + 1, oob),
                     out \o block \o sep, oob)
      ELSE RangeLoop(id_vec, i + 1, start_id, out, oob)

\* ids: the native IDs of the unit's entities of one dimension, in index
\* order. The result is the text of the condensed range listing.
dagmc_ids_for_dim(ids, oob) ==
  LET id_vec == SortSeq(ids, LAMBDA a, b : a < b)
  IN  RangeLoop(id_vec, 0, VecAt(id_vec, 0, oob), << >>, oob)

\* The values a read one past the end of id_vec may yield: one that is not
\* above any ID plus one, and one that is.
OobValues == {0, MaxId + 10}

\* ------------------------------------------------------------------ state
VARIABLES
  suite,                 \* the family of inputs this run draws from
  cells,                 \* model::cells
  cell_map,              \* model::cell_map, cell ID -> index in cells
  surfaces,              \* model::surfaces
  surface_map,           \* model::surface_map, surface ID -> index in surfaces
  materials,             \* model::materials
  verbosity,             \* settings::verbosity
  node,                  \* the configuration the constructor was given
  file,                  \* the loaded DAGMC file: volumes, surfaces, UWUW library
  adjust_geometry_ids_,  \* DAGUniverse::adjust_geometry_ids_
  adjust_material_ids_,  \* DAGUniverse::adjust_material_ids_
  uwuw_,                 \* DAGUniverse::uwuw_, the material library
  using_uwuw,            \* initialize(): bool using_uwuw
  next_cell_id,          \* initialize(): next_cell_id
  next_surf_id,          \* initialize(): next_surf_id
  cell_idx_offset_,      \* DAGUniverse::cell_idx_offset_
  surf_idx_offset_,      \* DAGUniverse::surf_idx_offset_
  graveyard,             \* initialize(): graveyard handle, 0 when none
  i,                     \* the loop index of the running loop
  c,                     \* the DAGCell under construction
  pc,                    \* idle, cells, surfaces, done, aborted
  err,                   \* why the import aborted, "none" otherwise
  id_listing,            \* what the last call of dagmc_ids_for_dim returned
  graveyard_warning,     \* the "No graveyard volume found" warning was given
  n_imports,             \* constructors called so far
  before,                \* history: cells and cell_map when the import began
  orphan_ids             \* history: cell IDs put in cell_map by a volume whose
                         \* step then aborted before the cell was appended

globals == <<cells, cell_map, surfaces, surface_map, materials>>
settings == <<verbosity>>
unit == <<node, file, adjust_geometry_ids_, adjust_material_ids_, uwuw_,
          using_uwuw, next_cell_id, next_surf_id, cell_idx_offset_,
          surf_idx_offset_, graveyard, i, c>>
log == <<id_listing, graveyard_warning>>
history == <<before, orphan_ids>>
vars == <<suite, globals, settings, unit, pc, err, log, n_imports, history>>

\* ---------------------------------------------------------------- helpers
\* A next ID taken from the number of entries instead of the highest ID.
NextId_FromCount(seq) == Len(seq) + 1

\* "int32_t next = 0; for (x : seq) if (x->id_ > next) next = x->id_; next++"
NextId(seq) ==
  LET S == {seq[k].id : k \in DOMAIN seq} \cup {0}
  IN  (CHOOSE m \in S : \A x \in S : x <= m) + 1

\* A candidate ID that ignores the numbering mode.
CandidateId_AlwaysRenumber(adjust, next_id, native_id) == next_id

\* "adjust_geometry_ids_ ? next_id++ : dagmc_instance_->id_by_index(dim, k)"
CandidateId(adjust, next_id, native_id) ==
  IF adjust THEN next_id ELSE native_id

\* A registration under the index after the one the entry will get.
RegisterId_OffByOne(map, id, size) ==
  IF id \in DOMAIN map
  THEN [ok |-> FALSE, map |-> map]
  ELSE [ok |-> TRUE,
        map |-> [x \in DOMAIN map \cup {id} |->
                   IF x = id THEN size + 1 ELSE map[x]]]

\* A registration that overwrites the entry of an ID already present.
RegisterId_Overwrite(map, id, size) ==
  [ok |-> TRUE,
   map |-> [x \in DOMAIN map \cup {id} |-> IF x = id THEN size ELSE map[x]]]

\* "auto in_map = map.find(id); if (in_map == map.end()) map[id] = size;
\*  else fatal_error(...)"
RegisterId(map, id, size) ==
  IF id \in DOMAIN map
  THEN [ok |-> FALSE, map |-> map]
  ELSE [ok |-> TRUE,
        map |-> [x \in DOMAIN map \cup {id} |-> IF x = id THEN size ELSE map[x]]]

\* model::material_map.at(id): the index of the material with this ID.
MaterialKnown(mats, id) == \E k \in DOMAIN mats : mats[k].id = id

MaterialAt(mats, id) == mats[CHOOSE k \in DOMAIN mats : mats[k].id = id]

\* The for loop of legacy_assign_material from material k on.
RECURSIVE LegacyScan(_, _, _, _)
LegacyScan(mat_string, mats, k, material) ==
  IF k > Len(mats) THEN [err |-> "none", material |-> material]
  ELSE IF mat_string = to_lower(mats[k].name)
  THEN IF material = << >>
       THEN LegacyScan(mat_string, mats, k + 1, <<mats[k].id>>)
       ELSE [err |-> "ambiguous_material", material |-> material]
  ELSE LegacyScan(mat_string, mats, k + 1, material)

\* A name match that lower-cases the tag and not the material's name.
RECURSIVE LegacyScan_CaseSensitive(_, _, _, _)
LegacyScan_CaseSensitive(mat_string, mats, k, material) ==
  IF k > Len(mats) THEN [err |-> "none", material |-> material]
  ELSE IF mat_string = mats[k].name
  THEN IF material = << >>
       THEN LegacyScan_CaseSensitive(mat_string, mats, k + 1, <<mats[k].id>>)
       ELSE [err |-> "ambiguous_material", material |-> material]
  ELSE LegacyScan_CaseSensitive(mat_string, mats, k + 1, material)

legacy_assign_material_CaseSensitive(mat_string, mats, verbose) ==
  LET scan == LegacyScan_CaseSensitive(to_lower(mat_string), mats, 1, << >>)
      id == stoi(to_lower(mat_string))
      set == IF scan.err # "none" \/ scan.material # << >> THEN scan
             ELSE IF id.kind = "ok"
             THEN [err |-> "none", material |-> <<id.value>>]
             ELSE IF id.kind = "invalid_argument"
             THEN [err |-> "unknown_material", material |-> << >>]
             ELSE [err |-> "out_of_range", material |-> << >>]
  IN  IF set.err = "none" /\ verbose >= 10
         /\ ~MaterialKnown(mats, set.material[1])
      THEN [err |-> "out_of_range", material |-> set.material]
      ELSE set

\* legacy_assign_material(mat_string, c): c->material_ afterwards, and the
\* error that ended it. The message written at verbosity 10 and above looks
\* the material up with model::material_map.at, which throws for an ID that
\* no material has.
legacy_assign_material(mat_string, mats, verbose) ==
  LET scan == LegacyScan(to_lower(mat_string), mats, 1, << >>)
      id == stoi(to_lower(mat_string))
      set == IF scan.err # "none" \/ scan.material # << >> THEN scan
             ELSE IF id.kind = "ok"
             THEN [err |-> "none", material |-> <<id.value>>]
             ELSE IF id.kind = "invalid_argument"
             THEN [err |-> "unknown_material", material |-> << >>]
             ELSE [err |-> "out_of_range", material |-> << >>]
  IN  IF set.err = "none" /\ verbose >= 10
         /\ ~MaterialKnown(mats, set.material[1])
      THEN [err |-> "out_of_range", material |-> set.material]
      ELSE set

\* uwuw_->material_library.count(name) and get_material(name).
LibHas(lib, name) == \E k \in DOMAIN lib : lib[k].name = name

LibNumber(lib, name) ==
  lib[CHOOSE k \in DOMAIN lib : lib[k].name = name].mat_number

IsReservedTag(mat_str) ==
  mat_str = STR_void \/ mat_str = STR_vacuum \/ mat_str = STR_graveyard

\* "material void checks": c->material_ for the lower-cased tag mat_str.
AssignMaterial(mat_str, uwuw_mat, uses, lib, mats, verbose) ==
  IF IsReservedTag(mat_str)
  THEN [err |-> "none", material |-> <<MATERIAL_VOID>>]
  ELSE IF uses
  THEN IF LibHas(lib, uwuw_mat)
       THEN [err |-> "none", material |-> <<LibNumber(lib, uwuw_mat)>>]
       ELSE [err |-> "uwuw_missing", material |-> << >>]
  ELSE legacy_assign_material(mat_str, mats, verbose)

\* "if (mat_str == "graveyard") graveyard = vol_handle;"
TrackGraveyard(gy, mat_str, vol_handle) ==
  IF mat_str = STR_graveyard THEN vol_handle ELSE gy

\* A temperature assignment without the fall-back on the default.
CellTemperature_NoDefault(has_temp, mat) ==
  IF has_temp THEN <<TempProp>>
  ELSE IF mat.temperature > 0 THEN <<mat.temperature>>
  ELSE << >>

\* "assign cell temperature": c->sqrtkT_ of a non-void cell. An entry T
\* stands for sqrt(K_BOLTZMANN * T).
CellTemperature(has_temp, mat) ==
  IF has_temp THEN <<TempProp>>
  ELSE IF mat.temperature > 0 THEN <<mat.temperature>>
  ELSE <<temperature_default>>

\* A classification that lets the periodic tag through as transmissive.
ClassifyBoundary_PeriodicPasses(bc_value) ==
  IF bc_value = STR_empty \/ bc_value = STR_transmit
     \/ bc_value = STR_transmission \/ bc_value = STR_periodic
  THEN [err |-> "none", bc |-> "none"]
  ELSE IF bc_value = STR_vacuum
  THEN [err |-> "none", bc |-> "vacuum"]
  ELSE IF bc_value = STR_reflective \/ bc_value = STR_reflect
          \/ bc_value = STR_reflecting
  THEN [err |-> "none", bc |-> "reflective"]
  ELSE [err |-> "unknown_bc", bc |-> "none"]

\* "set BCs": s->bc_ for the lower-cased boundary tag.
ClassifyBoundary(bc_value) ==
  IF bc_value = STR_empty \/ bc_value = STR_transmit \/ bc_value = STR_transmission
  THEN [err |-> "none", bc |-> "none"]
  ELSE IF bc_value = STR_vacuum
  THEN [err |-> "none", bc |-> "vacuum"]
  ELSE IF bc_value = STR_reflective \/ bc_value = STR_reflect
          \/ bc_value = STR_reflecting
  THEN [err |-> "none", bc |-> "reflective"]
  ELSE IF bc_value = STR_periodic
  THEN [err |-> "periodic_bc", bc |-> "none"]
  ELSE [err |-> "unknown_bc", bc |-> "none"]

\* A graveyard check that leaves a condition set from the tag in place.
GraveyardCheck_KeepTagged(bc, gy, parent_vols) ==
  IF gy # 0 /\ gy \in parent_vols /\ bc = "none" THEN "vacuum" ELSE bc

\* "graveyard check": the surface's boundary condition after it.
GraveyardCheck(bc, gy, parent_vols) ==
  IF gy # 0 /\ gy \in parent_vols THEN "vacuum" ELSE bc

\* read_uwuw_materials(): the library and model::materials afterwards.
RECURSIVE RenumberLib(_, _, _)
RenumberLib(lib, k, next_material_id) ==
  IF k > Len(lib) THEN lib
  ELSE RenumberLib([lib EXCEPT ![k].mat_number = next_material_id],
                   k + 1, next_material_id + 1)

read_uwuw_materials(lib, adjust, mats) ==
  LET next_material_id == NextId(mats)
      lib1 == IF adjust THEN RenumberLib(lib, 1, next_material_id) ELSE lib
      made == [k \in 1..Len(lib1) |->
                 [id |-> lib1[k].mat_number, name |-> lib1[k].name,
                  temperature |-> 0]]
  IN  IF Len(lib) = 0 THEN [lib |-> lib, materials |-> mats]
      ELSE [lib |-> lib1, materials |-> mats \o made]

\* ----------------------------------------------------------------- inputs
\* The inputs are drawn from five families, each varying what one part of
\* the import reads: "ids" the native IDs and the numbering mode, over
\* sequences of imports; "bc" the boundary tags and the parent volumes;
\* "mat" the material tags against model::materials; "lib" the UWUW
\* library; "cfg" the parameters of the configuration node.
Suites == {"ids", "bc", "mat", "lib", "cfg"}

InjSeqs(n, S) ==
  {q \in [1..n -> S] : \A a, b \in 1..n : a # b => q[a] # q[b]}

MatTags ==
  {STR_empty, STR_void, STR_VOID, STR_vacuum, STR_Graveyard, STR_steel,
   STR_Steel, STR_iron, STR_seven, STR_minus_one, STR_seven_x, STR_pad_two,
   STR_x9}

BcTags ==
  {STR_empty, STR_transmit, STR_transmission, STR_vacuum, STR_Vacuum,
   STR_reflective, STR_reflect, STR_Reflect, STR_reflecting, STR_periodic,
   STR_white}

VolIds(st, n) ==
  IF st = "ids" THEN InjSeqs(n, 1..MaxId) ELSE {[k \in 1..n |-> k]}

VolTags(st) ==
  CASE st = "ids" -> {STR_void, STR_empty}
    [] st = "bc"  -> {STR_void, STR_graveyard, STR_Graveyard}
    [] st = "mat" -> MatTags
    [] st = "lib" -> {STR_Steel, STR_vacuum}
    [] OTHER      -> {STR_void}

VolKeys(st) ==
  IF st = "lib" THEN {STR_mat_steel, STR_mat_iron, STR_mat_lead} ELSE {STR_empty}

VolTemps(st) == IF st \in {"mat", "lib"} THEN BOOLEAN ELSE {FALSE}

Vols(st) ==
  UNION {
    {[k \in 1..n |-> [id |-> ids[k], material |-> tag[k],
                      uwuw_mat |-> key[k], has_temp |-> tmp[k]]] :
       ids \in VolIds(st, n), tag \in [1..n -> VolTags(st)],
       key \in [1..n -> VolKeys(st)], tmp \in [1..n -> VolTemps(st)]}
    : n \in 1..MaxVols}

SurfCounts(st) == IF st \in {"ids", "bc"} THEN 0..MaxSurfs ELSE {0}

SurfIds(st, m) ==
  IF st = "ids" THEN InjSeqs(m, 1..MaxId) ELSE {[k \in 1..m |-> k]}

SurfTags(st) == IF st = "bc" THEN BcTags ELSE {STR_empty, STR_white}

SurfParents(st, n) == IF st = "bc" THEN SUBSET (1..n) ELSE {{}}

Surfs(st, n) ==
  UNION {
    {[k \in 1..m |-> [id |-> ids[k], boundary |-> tag[k], parents |-> par[k]]] :
       ids \in SurfIds(st, m), tag \in [1..m -> SurfTags(st)],
       par \in [1..m -> SurfParents(st, n)]}
    : m \in SurfCounts(st)}

\* UWUW libraries, in the key order of the std::map.
Libs(st) ==
  IF st = "lib"
  THEN {<<[name |-> STR_mat_steel, mat_number |-> 5]>>,
        <<[name |-> STR_mat_iron, mat_number |-> 9],
          [name |-> STR_mat_steel, mat_number |-> 5]>>}
  ELSE {<< >>}

Files(st) ==
  UNION {
    {[vols |-> v, surfs |-> s, lib |-> l] : s \in Surfs(st, Len(v)), l \in Libs(st)}
    : v \in Vols(st)}

Params == {"absent", "true", "false"}

Nodes(st) ==
  CASE st = "cfg" ->
         [ctor : {"xml"}, has_id : BOOLEAN, has_filename : BOOLEAN,
          auto_geom_ids : Params, auto_mat_ids : Params]
    [] st = "lib" ->
         [ctor : {"xml"}, has_id : {TRUE}, has_filename : {TRUE},
          auto_geom_ids : {"absent"}, auto_mat_ids : {"absent", "true"}]
    [] st = "mat" ->
         [ctor : {"xml"}, has_id : {TRUE}, has_filename : {TRUE},
          auto_geom_ids : {"absent"}, auto_mat_ids : {"absent"}]
    [] OTHER ->
         [ctor : {"xml"}, has_id : {TRUE}, has_filename : {TRUE},
          auto_geom_ids : {"absent", "true"}, auto_mat_ids : {"absent"}]

\* The constructors one run of a family calls.
ImportBudget(st) == IF st = "ids" THEN MaxImports ELSE 1

\* A cell and a surface of the CSG geometry read before any DAGMC universe.
CsgCell(id) ==
  [id |-> id, dag_index |-> 0, material |-> <<MATERIAL_VOID>>, sqrtkT |-> << >>]

CsgSurface(id) == [id |-> id, dag_index |-> 0, bc |-> "none"]

Material(name, id, temperature) ==
  [id |-> id, name |-> name, temperature |-> temperature]

InitMaterials(st) ==
  CASE st = "mat" ->
         {<< >>,
          <<Material(STR_Steel, 1, 0)>>,
          <<Material(STR_Steel, 1, 0), Material(STR_steel, 2, 900)>>,
          <<Material(STR_Vacuum, 3, 0), Material(STR_iron, 7, 900)>>}
    [] st = "lib" -> {<< >>, <<Material(STR_Steel, 1, 0)>>}
    [] OTHER -> {<< >>}

\* settings::verbosity: the default, and the level of the material messages.
Verbosities(st) == IF st = "mat" THEN {7, 10} ELSE {7}

InitCells(st) ==
  IF st = "ids" THEN {<< >>, <<CsgCell(2)>>} ELSE {<< >>}

InitSurfaces(st) ==
  IF st = "ids" THEN {<< >>, <<CsgSurface(2)>>} ELSE {<< >>}

\* The ID-to-index map of a sequence whose IDs are distinct.
MapOf(seq) ==
  [x \in {seq[k].id : k \in DOMAIN seq} |->
     (CHOOSE k \in DOMAIN seq : seq[k].id = x) - 1]

NoNode ==
  [ctor |-> "none", has_id |-> FALSE, has_filename |-> FALSE,
   auto_geom_ids |-> "absent", auto_mat_ids |-> "absent"]

NoFile == [vols |-> << >>, surfs |-> << >>, lib |-> << >>]

NoCell == [id |-> 0, dag_index |-> 0, material |-> << >>, sqrtkT |-> << >>]

Init ==
  /\ suite \in Suites
  /\ cells \in InitCells(suite)
  /\ surfaces \in InitSurfaces(suite)
  /\ Len(cells) = Len(surfaces)
  /\ cell_map = MapOf(cells)
  /\ surface_map = MapOf(surfaces)
  /\ materials \in InitMaterials(suite)
  /\ verbosity \in Verbosities(suite)
  /\ node = NoNode
  /\ file = NoFile
  /\ adjust_geometry_ids_ = FALSE
  /\ adjust_material_ids_ = FALSE
  /\ uwuw_ = << >>
  /\ using_uwuw = FALSE
  /\ next_cell_id = 0
  /\ next_surf_id = 0
  /\ cell_idx_offset_ = 0
  /\ surf_idx_offset_ = 0
  /\ graveyard = 0
  /\ i = 0
  /\ c = NoCell
  /\ pc = "idle"
  /\ err = "none"
  /\ id_listing = << >>
  /\ graveyard_warning = FALSE
  /\ n_imports = 0
  /\ before = [cells |-> cells, cell_map |-> cell_map]
  /\ orphan_ids = {}

\* ---------------------------------------------------------------- actions
\* fatal_error(): the import ends here, with everything as it is.
Abort(kind) ==
  /\ pc' = "aborted"
  /\ err' = kind

\* DAGUniverse(pugi::xml_node): adjust_geometry_ids_ after the two
\* check_for_node blocks.
XmlAdjustGeometry(nd) ==
  LET geom == IF nd.auto_geom_ids # "absent"
              THEN nd.auto_geom_ids = "true" ELSE FALSE
  IN  IF nd.auto_mat_ids # "absent" THEN nd.auto_mat_ids = "true" ELSE geom

\* DAGUniverse(pugi::xml_node): adjust_material_ids_ after them.
XmlAdjustMaterial(nd) == FALSE

\* initialize() up to the volume loop.
Initialize(nd, f, adj_geom, adj_mat) ==
  LET lib == read_uwuw_materials(f.lib, adj_mat, materials)
  IN  /\ node' = nd
      /\ file' = f
      /\ adjust_geometry_ids_' = adj_geom
      /\ adjust_material_ids_' = adj_mat
      /\ next_cell_id' = NextId(cells)
      /\ cell_idx_offset_' = Len(cells)
      /\ next_surf_id' = NextId(surfaces)
      /\ surf_idx_offset_' = Len(surfaces)
      /\ uwuw_' = lib.lib
      /\ materials' = lib.materials
      /\ using_uwuw' = (Len(lib.lib) # 0)
      /\ graveyard' = 0
      /\ i' = 0
      /\ c' = NoCell
      /\ pc' = "cells"
      /\ err' = "none"
      /\ id_listing' = << >>
      /\ graveyard_warning' = FALSE
      /\ before' = [cells |-> cells, cell_map |-> cell_map]
      /\ UNCHANGED <<cells, cell_map, surfaces, surface_map, orphan_ids, settings>>

CanConstruct ==
  /\ pc \in {"idle", "done", "aborted"}
  /\ n_imports < ImportBudget(suite)

\* DAGUniverse::DAGUniverse(pugi::xml_node node)
ConstructXml ==
  /\ CanConstruct
  /\ n_imports' = n_imports + 1
  /\ UNCHANGED suite
  /\ \E nd \in Nodes(suite), f \in Files(suite) :
       IF ~nd.has_id \/ ~nd.has_filename
       THEN /\ Abort(IF ~nd.has_id THEN "missing_id" ELSE "missing_filename")
            /\ node' = nd
            /\ file' = NoFile
            /\ adjust_geometry_ids_' = FALSE
            /\ adjust_material_ids_' = FALSE
            /\ uwuw_' = << >>
            /\ using_uwuw' = FALSE
            /\ i' = 0
            /\ c' = NoCell
            /\ graveyard' = 0
            /\ UNCHANGED <<globals, settings, next_cell_id, next_surf_id,
                           cell_idx_offset_, surf_idx_offset_, log, history>>
       ELSE Initialize(nd, f, XmlAdjustGeometry(nd), XmlAdjustMaterial(nd))

\* The arguments of the constructor from a file name, in the family that
\* calls it.
FileCtorArgs(st) == IF st = "lib" THEN BOOLEAN ELSE {}

\* DAGUniverse::DAGUniverse(const std::string& filename, bool auto_geom_ids).
\* The constructor does not set adjust_material_ids_: uninit is the value the
\* member holds.
ConstructFile ==
  /\ CanConstruct
  /\ n_imports' = n_imports + 1
  /\ UNCHANGED suite
  /\ \E f \in Files(suite), auto_geom_ids \in FileCtorArgs(suite),
        uninit \in BOOLEAN :
       Initialize([ctor |-> "file", has_id |-> TRUE, has_filename |-> TRUE,
                   auto_geom_ids |-> IF auto_geom_ids THEN "true" ELSE "false",
                   auto_mat_ids |-> "absent"],
                  f, auto_geom_ids, uninit)

NativeIds(seq) == [k \in 1..Len(seq) |-> seq[k].id]

\* One iteration of the volume loop of initialize().
VolumeStep ==
  /\ pc = "cells"
  /\ i < Len(file.vols)
  /\ LET vol == file.vols[i + 1]
         id == CandidateId(adjust_geometry_ids_, next_cell_id, vol.id)
         in_map == RegisterId(cell_map, id, Len(cells))
         mat_str == to_lower(vol.material)
         gy == TrackGraveyard(graveyard, mat_str, i + 1)
         asg == AssignMaterial(mat_str, vol.uwuw_mat, using_uwuw, uwuw_,
                               materials, verbosity)
         c0 == [id |-> id, dag_index |-> i + 1, material |-> << >>,
                sqrtkT |-> << >>]
         c1 == [c0 EXCEPT !.material = asg.material]
         c2 == [c1 EXCEPT !.sqrtkT =
                  CellTemperature(vol.has_temp, MaterialAt(materials, c1.material[1]))]
     IN  /\ next_cell_id' =
              IF adjust_geometry_ids_ THEN next_cell_id + 1 ELSE next_cell_id
         /\ IF ~in_map.ok
            THEN /\ Abort("cell_collision")
                 /\ \E oob \in OobValues :
                      id_listing' = dagmc_ids_for_dim(NativeIds(file.vols), oob)
                 /\ c' = c0
                 /\ UNCHANGED <<cells, cell_map, graveyard, i, orphan_ids>>
            ELSE IF vol.material = STR_empty
            THEN /\ Abort("no_material")
                 /\ cell_map' = in_map.map
                 /\ c' = c0
                 /\ orphan_ids' = orphan_ids \cup {id}
                 /\ UNCHANGED <<cells, graveyard, i, id_listing>>
            ELSE IF asg.err # "none"
            THEN /\ Abort(asg.err)
                 /\ cell_map' = in_map.map
                 /\ graveyard' = gy
                 /\ c' = c1
                 /\ orphan_ids' = orphan_ids \cup {id}
                 /\ UNCHANGED <<cells, i, id_listing>>
            ELSE IF c1.material[1] = MATERIAL_VOID
            THEN /\ cells' = Append(cells, c1)
                 /\ cell_map' = in_map.map
                 /\ graveyard' = gy
                 /\ c' = c1
                 /\ i' = i + 1
                 /\ UNCHANGED <<pc, err, id_listing, orphan_ids>>
            ELSE IF ~MaterialKnown(materials, c1.material[1])
            THEN /\ Abort("out_of_range")
                 /\ cell_map' = in_map.map
                 /\ graveyard' = gy
                 /\ c' = c1
                 /\ orphan_ids' = orphan_ids \cup {id}
                 /\ UNCHANGED <<cells, i, id_listing>>
            ELSE /\ cells' = Append(cells, c2)
                 /\ cell_map' = in_map.map
                 /\ graveyard' = gy
                 /\ c' = c2
                 /\ i' = i + 1
                 /\ UNCHANGED <<pc, err, id_listing, orphan_ids>>
  /\ UNCHANGED <<suite, surfaces, surface_map, materials, settings, node, file,
                 adjust_geometry_ids_, adjust_material_ids_, uwuw_, using_uwuw,
                 next_surf_id, cell_idx_offset_, surf_idx_offset_,
                 graveyard_warning, n_imports, before>>

\* initialize() between the two loops: the warning of a missing graveyard.
EndCells ==
  /\ pc = "cells"
  /\ i = Len(file.vols)
  /\ graveyard_warning' = (graveyard = 0)
  /\ pc' = "surfaces"
  /\ i' = 0
  /\ UNCHANGED <<suite, globals, settings, node, file, adjust_geometry_ids_,
                 adjust_material_ids_, uwuw_, using_uwuw, next_cell_id,
                 next_surf_id, cell_idx_offset_, surf_idx_offset_, graveyard,
                 c, err, id_listing, n_imports, history>>

\* One iteration of the surface loop of initialize().
SurfaceStep ==
  /\ pc = "surfaces"
  /\ i < Len(file.surfs)
  /\ LET srf == file.surfs[i + 1]
         id == CandidateId(adjust_geometry_ids_, next_surf_id, srf.id)
         cls == ClassifyBoundary(to_lower(srf.boundary))
         bc == GraveyardCheck(cls.bc, graveyard, srf.parents)
         in_map == RegisterId(surface_map, id, Len(surfaces))
     IN  /\ next_surf_id' =
              IF adjust_geometry_ids_ THEN next_surf_id + 1 ELSE next_surf_id
         /\ IF cls.err # "none"
            THEN /\ Abort(cls.err)
                 /\ UNCHANGED <<surfaces, surface_map, i, id_listing>>
            ELSE IF ~in_map.ok
            THEN /\ Abort("surface_collision")
                 /\ \E oob \in OobValues :
                      id_listing' = dagmc_ids_for_dim(NativeIds(file.surfs), oob)
                 /\ UNCHANGED <<surfaces, surface_map, i>>
            ELSE /\ surface_map' = in_map.map
                 /\ surfaces' = Append(surfaces,
                      [id |-> id, dag_index |-> i + 1, bc |-> bc])
                 /\ i' = i + 1
                 /\ UNCHANGED <<pc, err, id_listing>>
  /\ UNCHANGED <<suite, cells, cell_map, materials, settings, node, file,
                 adjust_geometry_ids_, adjust_material_ids_, uwuw_, using_uwuw,
                 next_cell_id, cell_idx_offset_, surf_idx_offset_, graveyard,
                 c, graveyard_warning, n_imports, history>>

\* The end of initialize(): the constructor returns.
EndSurfaces ==
  /\ pc = "surfaces"
  /\ i = Len(file.surfs)
  /\ pc' = "done"
  /\ UNCHANGED <<suite, globals, settings, unit, err, log, n_imports, history>>

Next ==
  \/ ConstructXml
  \/ ConstructFile
  \/ VolumeStep
  \/ EndCells
  \/ SurfaceStep
  \/ EndSurfaces

Spec == Init /\ [][Next]_vars

\* ----------------------------------------------------------------- claims
\* An import has begun and has got past the checks of the constructor.
Imported ==
  /\ pc \in {"cells", "surfaces", "done", "aborted"}
  /\ err \notin {"missing_id", "missing_filename"}

UniqueIds(seq) ==
  \A a, b \in DOMAIN seq : a # b => seq[a].id # seq[b].id

NextCellCandidate ==
  CandidateId(adjust_geometry_ids_, next_cell_id, file.vols[i + 1].id)

NextSurfCandidate ==
  CandidateId(adjust_geometry_ids_, next_surf_id, file.surfs[i + 1].id)

\* C1: over any sequence of imports, completed or aborted, in either numbering
\* mode, no two cells of model::cells and no two surfaces of model::surfaces
\* share an ID; and a step whose candidate ID is already in the cell map or
\* the surface map ends the import with a fatal error and leaves the map and
\* the sequence as they were.
C1_UniqueIds ==
  /\ [](UniqueIds(cells) /\ UniqueIds(surfaces))
  /\ [][(pc = "cells" /\ i < Len(file.vols)
          /\ NextCellCandidate \in DOMAIN cell_map)
        => (pc' = "aborted" /\ err' = "cell_collision"
            /\ cells' = cells /\ cell_map' = cell_map)]_vars
  /\ [][(pc = "surfaces" /\ i < Len(file.surfs)
          /\ NextSurfCandidate \in DOMAIN surface_map)
        => (pc' = "aborted"
            /\ err' \in {"surface_collision", "periodic_bc", "unknown_bc"}
            /\ surfaces' = surfaces /\ surface_map' = surface_map)]_vars

\* C1 witness: a second import has aborted on a cell ID that an earlier
\* import registered.
C1_Witness ==
  /\ n_imports = 2
  /\ pc = "aborted"
  /\ err = "cell_collision"
  /\ Len(cells) >= 2
  /\ c.id \in DOMAIN cell_map

C2_Colliding(k) == file.vols[k].id \in DOMAIN before.cell_map

C2_Resolvable(k) ==
  LET vol == file.vols[k]
      asg == AssignMaterial(to_lower(vol.material), vol.uwuw_mat, using_uwuw,
                            uwuw_, materials, verbosity)
  IN  /\ vol.material # STR_empty
      /\ asg.err = "none"
      /\ (asg.material[1] = MATERIAL_VOID
          \/ MaterialKnown(materials, asg.material[1]))

\* A preserve-mode import of a unit of which some volume's native ID was in
\* the cell map when the import began, all material tags resolvable.
C2_Case ==
  /\ Imported
  /\ ~adjust_geometry_ids_
  /\ \E k \in 1..Len(file.vols) : C2_Colliding(k)
  /\ \A k \in 1..Len(file.vols) : C2_Resolvable(k)

C2_First ==
  CHOOSE k \in 1..Len(file.vols) :
    C2_Colliding(k) /\ \A j \in 1..(k - 1) : ~C2_Colliding(j)

\* C2 as stated: such an import fails with the cell-ID collision error, and
\* the cell sequence and the cell map are then what they were before it.
C2_RegistryUnchanged ==
  C2_Case =>
    /\ pc \in {"cells", "aborted"}
    /\ pc = "aborted" =>
         /\ err = "cell_collision"
         /\ cells = before.cells
         /\ cell_map = before.cell_map

\* C2 amended: such an import fails with the cell-ID collision error at the
\* first volume whose native ID was in the map, and the registry is then what
\* it was before the import extended by the cells of the volumes that precede
\* that volume, each under its native ID; it is unchanged when the colliding
\* volume is the first.
C2_RegistryExtended ==
  C2_Case =>
    LET off == Len(before.cells)
        added == {file.vols[k].id : k \in 1..i}
    IN  /\ pc \in {"cells", "aborted"}
        /\ i < C2_First
        /\ pc = "aborted" => (err = "cell_collision" /\ i = C2_First - 1)
        /\ Len(cells) = off + i
        /\ SubSeq(cells, 1, off) = before.cells
        /\ \A k \in 1..i : /\ cells[off + k].id = file.vols[k].id
                           /\ cells[off + k].dag_index = k
        /\ DOMAIN cell_map = DOMAIN before.cell_map \cup added
        /\ \A x \in DOMAIN before.cell_map : cell_map[x] = before.cell_map[x]
        /\ \A k \in 1..i : cell_map[file.vols[k].id] = off + k - 1

\* C2 witness: the import has aborted on its second volume, the first one
\* registered.
C2_Witness ==
  /\ C2_Case
  /\ pc = "aborted"
  /\ i = 1
  /\ Len(cells) = Len(before.cells) + 1

C3_Highest(seq) ==
  IF seq = << >> THEN 0
  ELSE LET S == {seq[k].id : k \in DOMAIN seq}
       IN  CHOOSE m \in S : \A x \in S : x <= m

C4_IsGraveyard(k) == to_lower(file.vols[k].material) = STR_graveyard

\* The last volume, in mesh-enumeration order, tagged graveyard; 0 if none.
C4_LastGraveyard ==
  LET G == {k \in 1..Len(file.vols) : C4_IsGraveyard(k)}
  IN  IF G = {} THEN 0 ELSE CHOOSE k \in G : \A g \in G : g <= k

\* C4 as stated: after an import that completes, every surface it registered
\* that has a volume tagged graveyard among its parents carries the Vacuum
\* boundary condition, whichever of the graveyard volumes it bounds.
C4_EveryGraveyardVacuum ==
  (Imported /\ pc = "done") =>
    \A j \in 1..Len(file.surfs) :
      (\E v \in file.surfs[j].parents : C4_IsGraveyard(v))
        => surfaces[surf_idx_offset_ + j].bc = "vacuum"

\* C4 amended: every surface the import registered that has, among its
\* parents, the LAST volume tagged graveyard in mesh-enumeration order
\* carries the Vacuum boundary condition, whatever its own boundary tag.
C4_LastGraveyardVacuum ==
  Imported =>
    \A j \in 1..(Len(surfaces) - surf_idx_offset_) :
      (C4_LastGraveyard # 0 /\ C4_LastGraveyard \in file.surfs[j].parents)
        => surfaces[surf_idx_offset_ + j].bc = "vacuum"

\* C4 witness: a completed import registered a surface tagged reflective
\* that bounds the last graveyard volume, with Vacuum.
C4_Witness ==
  /\ Imported
  /\ pc = "done"
  /\ \E j \in 1..Len(file.surfs) :
       /\ C4_LastGraveyard \in file.surfs[j].parents
       /\ to_lower(file.surfs[j].boundary) = STR_reflective
       /\ surfaces[surf_idx_offset_ + j].bc = "vacuum"

\* C5: a unit constructed from a configuration node renumbers cells and
\* surfaces exactly when auto_geom_ids is present and true, and renumbers
\* materials exactly when auto_mat_ids is present and true.
C5_FlagsFollowOwnParameter ==
  (Imported /\ node.ctor = "xml") =>
    /\ adjust_geometry_ids_ = (node.auto_geom_ids = "true")
    /\ adjust_material_ids_ = (node.auto_mat_ids = "true")

C6_Min(S) == CHOOSE m \in S : \A x \in S : m <= x

\* The condensed listing of a set of positive integers: ascending, a maximal
\* run of two or more consecutive integers as "start-end", ", " between.
RECURSIVE C6_Render(_)
C6_Render(S) ==
  IF S = {} THEN << >>
  ELSE LET lo == C6_Min(S)
           hi == CHOOSE h \in S :
                   /\ \A x \in lo..h : x \in S
                   /\ (h + 1) \notin S
                   /\ h >= lo
                   /\ \A g \in S : (g >= lo /\ (\A x \in lo..g : x \in S)) => g <= h
           rest == S \ (lo..hi)
           tok == IF hi > lo THEN to_string(lo) \o <<45>> \o to_string(hi)
                  ELSE to_string(lo)
       IN  IF rest = {} THEN tok ELSE tok \o <<44, 32>> \o C6_Render(rest)

\* The tokens of a text separated by ", ".
RECURSIVE C6_Split(_, _, _)
C6_Split(text, k, cur) ==
  IF k > Len(text) THEN <<cur>>
  ELSE IF text[k] = 44 /\ k < Len(text) /\ text[k + 1] = 32
  THEN <<cur>> \o C6_Split(text, k + 2, << >>)
  ELSE C6_Split(text, k + 1, cur \o <<text[k]>>)

C6_IsNumber(tok) == tok # << >> /\ \A k \in 1..Len(tok) : IsDigit(tok[k])

\* The IDs a token stands for: {n} for "n", lo..hi for "lo-hi"; not ok
\* for anything else.
C6_Token(tok) ==
  LET dashes == {k \in 1..Len(tok) : tok[k] = 45}
  IN  IF C6_IsNumber(tok)
      THEN [ok |-> TRUE, ids |-> {DigitRun(tok, 1, 0)}]
      ELSE IF Cardinality(dashes) = 1
      THEN LET d == CHOOSE k \in dashes : TRUE
               lo == SubSeq(tok, 1, d - 1)
               hi == SubSeq(tok, d + 1, Len(tok))
           IN  IF C6_IsNumber(lo) /\ C6_IsNumber(hi)
               THEN [ok |-> TRUE, ids |-> DigitRun(lo, 1, 0)..DigitRun(hi, 1, 0)]
               ELSE [ok |-> FALSE, ids |-> {}]
      ELSE [ok |-> FALSE, ids |-> {}]

C6_Parse(text) ==
  LET toks == C6_Split(text, 1, << >>)
  IN  [ok |-> \A k \in DOMAIN toks : C6_Token(toks[k]).ok,
       ids |-> UNION {C6_Token(toks[k]).ids : k \in DOMAIN toks}]

\* C6: the listing dagmc_ids_for_dim returns for the unit's IDs of a
\* dimension is their condensed listing, and parses back to exactly the set.
C6_RoundTrip ==
  (pc = "aborted" /\ err \in {"cell_collision", "surface_collision"}) =>
    LET seq == IF err = "cell_collision" THEN file.vols ELSE file.surfs
        ids == {seq[k].id : k \in DOMAIN seq}
    IN  /\ id_listing = C6_Render(ids)
        /\ C6_Parse(id_listing) = [ok |-> TRUE, ids |-> ids]

\* C7: every cell an import appended has at least one material; its
\* temperature list is empty if the first material is the VOID sentinel and
\* has exactly one entry otherwise.
C7_CellShape ==
  \A k \in DOMAIN cells :
    cells[k].dag_index >= 1 =>
      /\ Len(cells[k].material) >= 1
      /\ IF cells[k].material[1] = MATERIAL_VOID
         THEN cells[k].sqrtkT = << >>
         ELSE Len(cells[k].sqrtkT) = 1

\* C7 witness: one import appended a void cell and a cell whose material,
\* found in model::materials, gave it the default temperature.
C7_Witness ==
  /\ pc = "done"
  /\ \E k \in DOMAIN cells :
       cells[k].dag_index >= 1 /\ cells[k].material = <<MATERIAL_VOID>>
  /\ \E k \in DOMAIN cells :
       /\ cells[k].dag_index >= 1
       /\ cells[k].material[1] # MATERIAL_VOID
       /\ cells[k].sqrtkT = <<temperature_default>>

\* The materials whose name equals the tag, compared case-insensitively.
C8_Matches(tag) ==
  {k \in DOMAIN materials : to_lower(materials[k].name) = to_lower(tag)}

C9_Expected(tag) ==
  CASE tag \in {STR_empty, STR_transmit, STR_transmission} -> "none"
    [] tag = STR_vacuum -> "vacuum"
    [] tag \in {STR_reflective, STR_reflect, STR_reflecting} -> "reflective"
    [] tag = STR_periodic -> "periodic_bc"
    [] OTHER -> "unknown_bc"

C9_Fatal == {"periodic_bc", "unknown_bc"}

C9_Tag(j) == to_lower(file.surfs[j].boundary)

\* C9: a registered surface that does not bound the graveyard volume has the
\* boundary condition its lower-cased tag stands for (none for empty,
\* transmit, transmission; Vacuum for vacuum; Reflective for reflective,
\* reflect, reflecting); a surface tagged periodic, or with any other tag,
\* ends the import with the fatal error of that kind and is registered
\* neither in the surface map nor in the sequence, whatever its parents.
C9_BoundaryClassified ==
  /\ [](Imported =>
          /\ \A j \in 1..(Len(surfaces) - surf_idx_offset_) :
               /\ C9_Expected(C9_Tag(j)) \notin C9_Fatal
               /\ C4_LastGraveyard \notin file.surfs[j].parents
                    => surfaces[surf_idx_offset_ + j].bc = C9_Expected(C9_Tag(j))
          /\ (pc = "aborted" /\ err \in C9_Fatal) =>
               /\ C9_Expected(C9_Tag(i + 1)) = err
               /\ Len(surfaces) = surf_idx_offset_ + i)
  /\ [][(pc = "surfaces" /\ i < Len(file.surfs)
          /\ C9_Expected(C9_Tag(i + 1)) \in C9_Fatal)
        => (/\ pc' = "aborted"
            /\ err' = C9_Expected(C9_Tag(i + 1))
            /\ surfaces' = surfaces
            /\ surface_map' = surface_map)]_vars

\* C9 witness: a surface tagged periodic that bounds the graveyard volume
\* has ended the import.
C9_Witness ==
  /\ pc = "aborted"
  /\ err = "periodic_bc"
  /\ graveyard # 0
  /\ graveyard \in file.surfs[i + 1].parents
  /\ Len(surfaces) = surf_idx_offset_ + i

MapExact(map, seq) ==
  \A id \in DOMAIN map : map[id] < Len(seq) /\ seq[map[id] + 1].id = id

AllMapped(map, seq) ==
  \A k \in DOMAIN seq : seq[k].id \in DOMAIN map /\ map[seq[k].id] = k - 1

=============================================================================
